---- MODULE Spec2Model ----
(***************************************************************************)
(* pyvo/dal/mixin.py: the VOSI mixins (AvailabilityMixin, CapabilityMixin, *)
(* TablesMixin) of one service client instance, and the VOSITables mapping *)
(* that TablesMixin.tables returns.                                        *)
(*                                                                         *)
(* A URL is the sequence of its '/'-separated segments, so that the        *)
(* formatting '{0}/x' and url_sibling are computed, not assumed.  A        *)
(* standard id is a sequence of tokens, so that str.startswith is a prefix *)
(* test that differs from equality.  Every GET is answered by the network  *)
(* with one of three outcomes, and every access of a property or call of a *)
(* method is one step that records what it did in the variable last.       *)
(***************************************************************************)
EXTENDS Integers, Sequences, FiniteSets, TLC

VARIABLES
    _availability,   \* AvailabilityMixin._availability: None or the parsed document
    capabilities,    \* the lazyproperty cell of CapabilityMixin.capabilities
    tables,          \* the lazyproperty cell of TablesMixin.tables
    _vosi_tables,    \* VOSITables._vosi_tables: the table set, None before __init__
    _endpoint_url,   \* VOSITables._endpoint_url
    _cache,          \* VOSITables._cache: name -> Table
    gen,             \* the running generator of VOSITables.values() or items(), or None
    sent,            \* the outcomes of the GETs of {baseurl}/availability that the
                     \* transport of SpecAvailability has counted, in order
    pc,              \* the place of every thread of SpecThreads in its access
    local,           \* the local variables of every thread of SpecThreads
    last             \* the last access: its requests, its exception or its value

vars == <<_availability, capabilities, tables, _vosi_tables, _endpoint_url, _cache, gen,
          sent, pc, local, last>>

----------------------------------------------------------------------------
(* Bounds of the model *)

\* longest capability list a capabilities document carries
MaxCapabilities == 2
\* longest table set a tables document carries
MaxTables == 2

----------------------------------------------------------------------------
(* Optional values: None is the empty cell, Some(v) a cell holding v *)

None == <<>>
Some(v) == <<v>>

----------------------------------------------------------------------------
(* URLs *)

\* self.baseurl of the service client
baseurl == <<"http://example.org", "svc", "tap">>

\* '{0}/segment'.format(url)
Format(url, segment) == Append(url, segment)

\* replaces the last path segment of url by segment
url_sibling(url, segment) == Append(SubSeq(url, 1, Len(url) - 1), segment)

\* access URLs that a capabilities document may declare: the usual one, which
\* is {baseurl}/tables itself, and one elsewhere
U1 == <<"http://example.org", "svc", "tap", "tables">>
U2 == <<"http://mirror.example.org", "tables">>

----------------------------------------------------------------------------
(* The transport: requests.get followed by response.raise_for_status *)

\* "OK": get returns and raise_for_status passes; "HTTPError": get returns and
\* raise_for_status raises requests.HTTPError; "ConnectionError": get itself
\* raises requests.ConnectionError.  Both exceptions are RequestExceptions.
Outcomes == {"OK", "HTTPError", "ConnectionError"}

Request(url, outcome) == [url |-> url, outcome |-> outcome]

\* an exception: its class, what it was made from, and the URL it carries
Exception(type, reason, url) == [type |-> type, reason |-> reason, url |-> url]

\* DALServiceError.from_except(ex, url)
from_except(ex, url) == Exception("DALServiceError", ex, url)

\* what one access did: the GETs it issued, the exception it raised (or None),
\* the value it returned (or None), and the cell it leaves behind
Raise(reqs, ex, cell) == [reqs |-> reqs, raised |-> Some(ex), value |-> None, cell |-> cell]
Return(reqs, v, cell) == [reqs |-> reqs, raised |-> None, value |-> Some(v), cell |-> cell]

Called(op, arg, r) ==
    [op |-> op, arg |-> arg, reqs |-> r.reqs, raised |-> r.raised, value |-> r.value]

\* outcomes of the GETs of one candidate loop
Nets(n) == [1..n -> Outcomes]

\* the inputs of a fetch are read only when the fetch happens: S when it
\* does, and the one value unread when it does not
InputsIf(fetches, S, unread) == IF fetches THEN S ELSE {unread}

----------------------------------------------------------------------------
(* AvailabilityMixin *)

\* documents that vosi.parse_availability may produce
AvailabilityDocs ==
    { [available |-> TRUE, upsince |-> "2026-01-01T00:00:00Z"],
      [available |-> FALSE, upsince |-> "None"] }

\* AvailabilityMixin.availability without the test of self._availability
availability_refetched(cell, outcome, doc) ==
    LET avail_url == Format(baseurl, "availability")
        reqs == <<Request(avail_url, outcome)>>
    IN  CASE outcome = "ConnectionError" ->
               Raise(reqs, Exception("ConnectionError", "", avail_url), cell)
          [] outcome = "HTTPError" ->
               Raise(reqs, from_except("HTTPError", avail_url), cell)
          [] outcome = "OK" ->
               Return(reqs, doc, Some(doc))

\* AvailabilityMixin.availability that returns the parsed document and does
\* not assign it to self._availability
availability_unstored(cell, outcome, doc) ==
    IF cell = None
    THEN LET avail_url == Format(baseurl, "availability")
             reqs == <<Request(avail_url, outcome)>>
         IN  CASE outcome = "ConnectionError" ->
                    Raise(reqs, Exception("ConnectionError", "", avail_url), cell)
               [] outcome = "HTTPError" ->
                    Raise(reqs, from_except("HTTPError", avail_url), cell)
               [] outcome = "OK" ->
                    Return(reqs, doc, cell)
    ELSE Return(<<>>, cell[1], cell)

\* AvailabilityMixin.availability with self._availability holding cell, the
\* network answering outcome and the body parsing to doc
AvailabilityMixin_availability(cell, outcome, doc) ==
    IF cell = None
    THEN LET avail_url == Format(baseurl, "availability")
             reqs == <<Request(avail_url, outcome)>>
         IN  CASE outcome = "ConnectionError" ->
                    Raise(reqs, Exception("ConnectionError", "", avail_url), cell)
               [] outcome = "HTTPError" ->
                    Raise(reqs, from_except("HTTPError", avail_url), cell)
               [] outcome = "OK" ->
                    Return(reqs, doc, Some(doc))
    ELSE Return(<<>>, cell[1], cell)

GetAvailability ==
    \E outcome \in InputsIf(_availability = None, Outcomes, "OK"),
       doc \in InputsIf(_availability = None, AvailabilityDocs, [available |-> TRUE, upsince |-> "None"]) :
        LET r == AvailabilityMixin_availability(_availability, outcome, doc)
        IN  /\ _availability' = r.cell
            /\ last' = Called("availability", "", r)
            /\ UNCHANGED <<capabilities, tables, _vosi_tables, _endpoint_url, _cache, gen, sent, pc, local>>

\* AvailabilityMixin.available
available(cell, outcome, doc) ==
    LET r == AvailabilityMixin_availability(cell, outcome, doc)
    IN  IF r.raised = None THEN Return(r.reqs, r.value[1].available, r.cell) ELSE r

\* AvailabilityMixin.up_since
up_since(cell, outcome, doc) ==
    LET r == AvailabilityMixin_availability(cell, outcome, doc)
    IN  IF r.raised = None THEN Return(r.reqs, r.value[1].upsince, r.cell) ELSE r

----------------------------------------------------------------------------
(* CapabilityMixin *)

\* standard ids, as token sequences
VOSI_TABLES == <<"ivo://ivoa.net/std/", "VOSI#", "tables">>
VOSI_TABLES_11 == <<"ivo://ivoa.net/std/", "VOSI#", "tables", "-1.1">>
STD_TAP == <<"ivo://ivoa.net/std/", "TAP">>

AccessURL(url) == [value |-> url]
Interface(urls) == [accessurls |-> urls]

\* the interface lists a capability may declare
InterfaceLists ==
    { <<>>,
      <<Interface(<<>>)>>,
      <<Interface(<<AccessURL(U1)>>), Interface(<<AccessURL(U2)>>)>>,
      <<Interface(<<>>), Interface(<<AccessURL(U2), AccessURL(U1)>>)>> }

Capabilities ==
    { [standardid |-> STD_TAP,
       interfaces |-> <<Interface(<<AccessURL(baseurl)>>)>>] }
    \cup { [standardid |-> VOSI_TABLES, interfaces |-> l] : l \in InterfaceLists }
    \cup { [standardid |-> VOSI_TABLES_11,
            interfaces |-> <<Interface(<<AccessURL(U1)>>), Interface(<<AccessURL(U2)>>)>>] }

SeqsUpTo(S, n) == UNION { [1..k -> S] : k \in 0..n }

\* the capability lists that a capabilities document may carry
CapabilityDocs == SeqsUpTo(Capabilities, MaxCapabilities)

\* vosi.parse_capabilities(read, url): the capability list, tagged with url
parse_capabilities(doc, url) == [url |-> url, capabilities |-> doc]

\* the loop over capa_urls without its break: every candidate is requested
RECURSIVE for_capa_url_unbroken(_, _, _)
for_capa_url_unbroken(capa_urls, net, i) ==
    IF i > Len(capa_urls)
    THEN [reqs |-> <<>>, found |-> FALSE, url |-> None]
    ELSE LET rest == for_capa_url_unbroken(capa_urls, net, i + 1)
         IN  [reqs |-> <<Request(capa_urls[i], net[i])>> \o rest.reqs,
              found |-> rest.found \/ net[i] = "OK",
              url |-> IF rest.found THEN rest.url
                      ELSE IF net[i] = "OK" THEN capa_urls[i] ELSE None]

\* the loop over capa_urls from its i-th candidate on; net[i] is the outcome
\* of the GET of the i-th candidate
RECURSIVE for_capa_url(_, _, _)
for_capa_url(capa_urls, net, i) ==
    IF i > Len(capa_urls)
    THEN [reqs |-> <<>>, found |-> FALSE, url |-> None]
    ELSE IF net[i] = "OK"
         THEN [reqs |-> <<Request(capa_urls[i], net[i])>>, found |-> TRUE,
               url |-> capa_urls[i]]
         ELSE LET rest == for_capa_url(capa_urls, net, i + 1)
              IN  [rest EXCEPT !.reqs = <<Request(capa_urls[i], net[i])>> \o @]

\* CapabilityMixin.capabilities with requests.get outside the try: the
\* ConnectionError of a candidate reaches the caller
capabilities_get_untried(cell, net, doc) ==
    IF cell = None
    THEN LET capa_urls == << Format(baseurl, "capabilities"),
                             url_sibling(baseurl, "capabilities") >>
             loop == for_capa_url(capa_urls, net, 1)
             n == Len(loop.reqs)
         IN  IF loop.found
             THEN LET v == parse_capabilities(doc, loop.url)
                  IN  Return(loop.reqs, v, Some(v))
             ELSE IF loop.reqs[n].outcome = "ConnectionError"
                  THEN Raise(loop.reqs, Exception("ConnectionError", "", capa_urls[n]), cell)
                  ELSE Raise(loop.reqs,
                             Exception("DALServiceError",
                                       "No working capabilities endpoint provided", None),
                             cell)
    ELSE Return(<<>>, cell[1], cell)

\* CapabilityMixin.capabilities with the lazyproperty cell holding cell
CapabilityMixin_capabilities(cell, net, doc) ==
    IF cell = None
    THEN LET capa_urls == << Format(baseurl, "capabilities"),
                             url_sibling(baseurl, "capabilities") >>
             loop == for_capa_url(capa_urls, net, 1)
         IN  IF loop.found
             THEN LET v == parse_capabilities(doc, loop.url)
                  IN  Return(loop.reqs, v, Some(v))
             ELSE Raise(loop.reqs,
                        Exception("DALServiceError",
                                  "No working capabilities endpoint provided", None),
                        cell)
    ELSE Return(<<>>, cell[1], cell)

GetCapabilities ==
    \E net \in InputsIf(capabilities = None, Nets(2), [i \in 1..2 |-> "OK"]),
       doc \in InputsIf(capabilities = None, CapabilityDocs, <<>>) :
        LET r == CapabilityMixin_capabilities(capabilities, net, doc)
        IN  /\ capabilities' = r.cell
            /\ last' = Called("capabilities", "", r)
            /\ UNCHANGED <<_availability, tables, _vosi_tables, _endpoint_url, _cache, gen, sent, pc, local>>

----------------------------------------------------------------------------
(* The tables documents *)

TableNames == {"obscore", "tap_schema.tables", "tap_schema.columns"}

Table(name, columns, foreignkeys) ==
    [name |-> name, columns |-> columns, foreignkeys |-> foreignkeys]

\* the summaries a tables document may give for name: without columns and
\* foreign keys, with columns, with foreign keys only
Summaries(name) ==
    { Table(name, <<>>, <<>>),
      Table(name, <<"id">>, <<>>),
      Table(name, <<>>, <<"fk">>) }

\* the tables that the document of the single table name may hold
SingleTables(name) ==
    { Table(name, <<"id">>, <<>>),
      Table(name, <<"id", "ra">>, <<"fk">>),
      Table(name, <<>>, <<>>) }

AllTables == UNION { Summaries(n) \cup SingleTables(n) : n \in TableNames }

\* the table sets of at most n tables named in names, every name at most once
TableSets(names, n) ==
    { ts \in SeqsUpTo(UNION { Summaries(name) : name \in names }, n) :
        \A i, j \in 1..Len(ts) : ts[i].name = ts[j].name => i = j }

\* TableSetFile.ntables
ntables(vosi_tables) == Len(vosi_tables)

\* TableSetFile.iter_tables(): the tables in declared order
iter_tables(vosi_tables) == vosi_tables

\* TableSetFile.get_table_by_name(name): the table, or None for the KeyError
get_table_by_name(vosi_tables, name) ==
    LET found == SelectSeq(iter_tables(vosi_tables), LAMBDA t : t.name = name)
    IN  IF found = <<>> THEN None ELSE Some(found[1])

----------------------------------------------------------------------------
(* TablesMixin *)

\* str.startswith
startswith(s, prefix) ==
    /\ Len(s) >= Len(prefix)
    /\ SubSeq(s, 1, Len(prefix)) = prefix

\* itertools.chain.from_iterable
RECURSIVE chain_from_iterable(_)
chain_from_iterable(seqs) ==
    IF seqs = <<>> THEN <<>>
    ELSE Head(seqs) \o chain_from_iterable(Tail(seqs))

\* the candidate URLs with the convention list tried after the declared URLs
tables_urls_then_convention(capas) ==
    LET matching == SelectSeq(capas, LAMBDA c : startswith(c.standardid, VOSI_TABLES))
        convention == << Format(baseurl, "tables"), url_sibling(baseurl, "tables") >>
    IN  IF matching # <<>>
        THEN LET interfaces == matching[1].interfaces
                 accessurls == chain_from_iterable(
                                   [i \in 1..Len(interfaces) |-> interfaces[i].accessurls])
             IN  [i \in 1..Len(accessurls) |-> accessurls[i].value] \o convention
        ELSE convention

\* the candidate URLs with the sibling path tried first
tables_urls_sibling_first(capas) ==
    LET matching == SelectSeq(capas, LAMBDA c : startswith(c.standardid, VOSI_TABLES))
    IN  IF matching # <<>>
        THEN LET interfaces == matching[1].interfaces
                 accessurls == chain_from_iterable(
                                   [i \in 1..Len(interfaces) |-> interfaces[i].accessurls])
             IN  [i \in 1..Len(accessurls) |-> accessurls[i].value]
        ELSE << url_sibling(baseurl, "tables"), Format(baseurl, "tables") >>

\* the candidate URLs with the convention taken when the capability declares
\* no access URL
tables_urls_empty_then_convention(capas) ==
    LET matching == SelectSeq(capas, LAMBDA c : startswith(c.standardid, VOSI_TABLES))
        convention == << Format(baseurl, "tables"), url_sibling(baseurl, "tables") >>
    IN  IF matching # <<>>
        THEN LET interfaces == matching[1].interfaces
                 accessurls == chain_from_iterable(
                                   [i \in 1..Len(interfaces) |-> interfaces[i].accessurls])
             IN  IF accessurls = <<>>
                 THEN convention
                 ELSE [i \in 1..Len(accessurls) |-> accessurls[i].value]
        ELSE convention

\* the candidate URLs of the tables endpoint: the try/except of TablesMixin.tables
tables_urls(capas) ==
    LET matching == SelectSeq(capas, LAMBDA c : startswith(c.standardid, VOSI_TABLES))
    IN  IF matching # <<>>
        THEN LET interfaces == matching[1].interfaces
                 accessurls == chain_from_iterable(
                                   [i \in 1..Len(interfaces) |-> interfaces[i].accessurls])
             IN  [i \in 1..Len(accessurls) |-> accessurls[i].value]
        ELSE << Format(baseurl, "tables"), url_sibling(baseurl, "tables") >>

\* the loop over tables_urls from its i-th candidate on
RECURSIVE for_tables_url(_, _, _)
for_tables_url(urls, net, i) ==
    IF i > Len(urls)
    THEN [reqs |-> <<>>, found |-> FALSE, url |-> None]
    ELSE IF net[i] = "OK"
         THEN [reqs |-> <<Request(urls[i], net[i])>>, found |-> TRUE, url |-> urls[i]]
         ELSE LET rest == for_tables_url(urls, net, i + 1)
              IN  [rest EXCEPT !.reqs = <<Request(urls[i], net[i])>> \o @]

\* VOSITables.__init__: the object that the tables cell refers to
VOSITables(vosi_tables, endpoint_url) ==
    [vosi_tables |-> vosi_tables, endpoint_url |-> endpoint_url]

\* TablesMixin.tables that gives the VOSITables the first candidate URL
tables_first_candidate(cell, capcell, capnet, capdoc, net, tableset) ==
    IF cell = None
    THEN LET c == CapabilityMixin_capabilities(capcell, capnet, capdoc)
         IN  IF c.raised # None
             THEN [capabilities |-> c.cell] @@ Raise(c.reqs, c.raised[1], cell)
             ELSE LET urls == tables_urls(c.value[1].capabilities)
                      loop == for_tables_url(urls, net, 1)
                      reqs == c.reqs \o loop.reqs
                  IN  IF loop.found
                      THEN LET v == VOSITables(tableset, urls[1])
                           IN  [capabilities |-> c.cell] @@ Return(reqs, v, Some(v))
                      ELSE [capabilities |-> c.cell] @@
                           Raise(reqs,
                                 Exception("DALServiceError",
                                           "No working tables endpoint provided", None),
                                 cell)
    ELSE [capabilities |-> capcell] @@ Return(<<>>, cell[1], cell)

\* TablesMixin.tables that reports a failure of capabilities as its own
tables_capabilities_error_replaced(cell, capcell, capnet, capdoc, net, tableset) ==
    IF cell = None
    THEN LET c == CapabilityMixin_capabilities(capcell, capnet, capdoc)
         IN  IF c.raised # None
             THEN [capabilities |-> c.cell] @@
                  Raise(c.reqs,
                        Exception("DALServiceError",
                                  "No working tables endpoint provided", None),
                        cell)
             ELSE LET urls == tables_urls(c.value[1].capabilities)
                      loop == for_tables_url(urls, net, 1)
                      reqs == c.reqs \o loop.reqs
                  IN  IF loop.found
                      THEN LET v == VOSITables(tableset, loop.url)
                           IN  [capabilities |-> c.cell] @@ Return(reqs, v, Some(v))
                      ELSE [capabilities |-> c.cell] @@
                           Raise(reqs,
                                 Exception("DALServiceError",
                                           "No working tables endpoint provided", None),
                                 cell)
    ELSE [capabilities |-> capcell] @@ Return(<<>>, cell[1], cell)

\* TablesMixin.tables with the two lazyproperty cells holding cell and capcell;
\* capnet and capdoc answer the capabilities fetch, net and tableset the
\* tables fetch.  The result also carries the capabilities cell it leaves.
TablesMixin_tables(cell, capcell, capnet, capdoc, net, tableset) ==
    IF cell = None
    THEN LET c == CapabilityMixin_capabilities(capcell, capnet, capdoc)
         IN  IF c.raised # None
             THEN [capabilities |-> c.cell] @@ Raise(c.reqs, c.raised[1], cell)
             ELSE LET urls == tables_urls(c.value[1].capabilities)
                      loop == for_tables_url(urls, net, 1)
                      reqs == c.reqs \o loop.reqs
                  IN  IF loop.found
                      THEN LET v == VOSITables(tableset, loop.url)
                           IN  [capabilities |-> c.cell] @@ Return(reqs, v, Some(v))
                      ELSE [capabilities |-> c.cell] @@
                           Raise(reqs,
                                 Exception("DALServiceError",
                                           "No working tables endpoint provided", None),
                                 cell)
    ELSE [capabilities |-> capcell] @@ Return(<<>>, cell[1], cell)

\* the table sets that the service of the client may serve
ServedTableSets == TableSets({"obscore"}, MaxTables)

\* VOSITables._cache after __init__
EmptyCache == [name \in {} |-> Table(name, <<>>, <<>>)]

GetTables ==
    \E capnet \in InputsIf(tables = None /\ capabilities = None, Nets(2), [i \in 1..2 |-> "OK"]),
       capdoc \in InputsIf(tables = None /\ capabilities = None, CapabilityDocs, <<>>) :
        LET c == CapabilityMixin_capabilities(capabilities, capnet, capdoc)
            fetches == tables = None /\ c.raised = None
            n == IF fetches THEN Len(tables_urls(c.value[1].capabilities)) ELSE 0
        IN  \E net \in Nets(n), tableset \in InputsIf(fetches, ServedTableSets, <<>>) :
                LET r == TablesMixin_tables(tables, capabilities, capnet, capdoc, net, tableset)
                IN  /\ tables' = r.cell
                    /\ capabilities' = r.capabilities
                    /\ IF tables = None /\ r.raised = None
                       THEN /\ _vosi_tables' = Some(r.value[1].vosi_tables)
                            /\ _endpoint_url' = r.value[1].endpoint_url
                            /\ _cache' = EmptyCache
                       ELSE UNCHANGED <<_vosi_tables, _endpoint_url, _cache>>
                    /\ last' = Called("tables", "", r)
                    /\ UNCHANGED <<_availability, gen, sent, pc, local>>

----------------------------------------------------------------------------
(* VOSITables *)

\* the GET of a table that is not cached, and the store of its parsed answer
hydrate(endpoint_url, cache, name, outcome, doc) ==
    LET tables_url == Format(endpoint_url, name)
        reqs == <<Request(tables_url, outcome)>>
    IN  CASE outcome = "ConnectionError" ->
               Raise(reqs, Exception("ConnectionError", "", tables_url), cache)
          [] outcome = "HTTPError" ->
               Raise(reqs, from_except("HTTPError", tables_url), cache)
          [] outcome = "OK" ->
               Return(reqs, doc, (name :> doc) @@ cache)

\* _get_table without the test of self._cache
_get_table_uncached(vosi_tables, endpoint_url, cache, name, outcome, doc) ==
    LET table == get_table_by_name(vosi_tables, name)
    IN  IF table = None
        THEN Raise(<<>>, Exception("KeyError", name, None), cache)
        ELSE IF table[1].columns = <<>> /\ table[1].foreignkeys = <<>>
             THEN hydrate(endpoint_url, cache, name, outcome, doc)
             ELSE Return(<<>>, table[1], cache)

\* _get_table that takes a summary without columns for incomplete, whatever
\* its foreign keys
_get_table_columns_only(vosi_tables, endpoint_url, cache, name, outcome, doc) ==
    IF name \in DOMAIN cache
    THEN Return(<<>>, cache[name], cache)
    ELSE LET table == get_table_by_name(vosi_tables, name)
         IN  IF table = None
             THEN Raise(<<>>, Exception("KeyError", name, None), cache)
             ELSE IF table[1].columns = <<>>
                  THEN hydrate(endpoint_url, cache, name, outcome, doc)
                  ELSE Return(<<>>, table[1], cache)

\* _get_table that asks the endpoint for a table the table set does not name
_get_table_undeclared_fetched(vosi_tables, endpoint_url, cache, name, outcome, doc) ==
    IF name \in DOMAIN cache
    THEN Return(<<>>, cache[name], cache)
    ELSE LET table == get_table_by_name(vosi_tables, name)
         IN  IF table = None \/ (table[1].columns = <<>> /\ table[1].foreignkeys = <<>>)
             THEN hydrate(endpoint_url, cache, name, outcome, doc)
             ELSE Return(<<>>, table[1], cache)

\* _get_table that stores a summary with columns or foreign keys under its name
_get_table_summary_cached(vosi_tables, endpoint_url, cache, name, outcome, doc) ==
    IF name \in DOMAIN cache
    THEN Return(<<>>, cache[name], cache)
    ELSE LET table == get_table_by_name(vosi_tables, name)
         IN  IF table = None
             THEN Raise(<<>>, Exception("KeyError", name, None), cache)
             ELSE IF table[1].columns = <<>> /\ table[1].foreignkeys = <<>>
                  THEN hydrate(endpoint_url, cache, name, outcome, doc)
                  ELSE Return(<<>>, table[1], (name :> table[1]) @@ cache)

\* _get_table that stores the summary under the name when the GET has failed
_get_table_failure_cached(vosi_tables, endpoint_url, cache, name, outcome, doc) ==
    IF name \in DOMAIN cache
    THEN Return(<<>>, cache[name], cache)
    ELSE LET table == get_table_by_name(vosi_tables, name)
         IN  IF table = None
             THEN Raise(<<>>, Exception("KeyError", name, None), cache)
             ELSE IF table[1].columns = <<>> /\ table[1].foreignkeys = <<>>
                  THEN LET r == hydrate(endpoint_url, cache, name, outcome, doc)
                       IN  IF r.raised = None
                           THEN r
                           ELSE Raise(r.reqs, r.raised[1], (name :> table[1]) @@ cache)
                  ELSE Return(<<>>, table[1], cache)

\* _get_table that starts a new cache with the table it has fetched
_get_table_cache_reset(vosi_tables, endpoint_url, cache, name, outcome, doc) ==
    IF name \in DOMAIN cache
    THEN Return(<<>>, cache[name], cache)
    ELSE LET table == get_table_by_name(vosi_tables, name)
         IN  IF table = None
             THEN Raise(<<>>, Exception("KeyError", name, None), cache)
             ELSE IF table[1].columns = <<>> /\ table[1].foreignkeys = <<>>
                  THEN LET r == hydrate(endpoint_url, EmptyCache, name, outcome, doc)
                       IN  IF r.raised = None THEN r ELSE Raise(r.reqs, r.raised[1], cache)
                  ELSE Return(<<>>, table[1], cache)

\* VOSITables._get_table(name) with self._cache holding cache; outcome and
\* doc answer the GET of the table, when it is issued
_get_table(vosi_tables, endpoint_url, cache, name, outcome, doc) ==
    IF name \in DOMAIN cache
    THEN Return(<<>>, cache[name], cache)
    ELSE LET table == get_table_by_name(vosi_tables, name)
         IN  IF table = None
             THEN Raise(<<>>, Exception("KeyError", name, None), cache)
             ELSE IF table[1].columns = <<>> /\ table[1].foreignkeys = <<>>
                  THEN LET tables_url == Format(endpoint_url, name)
                           reqs == <<Request(tables_url, outcome)>>
                       IN  CASE outcome = "ConnectionError" ->
                                  Raise(reqs, Exception("ConnectionError", "", tables_url), cache)
                             [] outcome = "HTTPError" ->
                                  Raise(reqs, from_except("HTTPError", tables_url), cache)
                             [] outcome = "OK" ->
                                  Return(reqs, doc, (name :> doc) @@ cache)
                  ELSE Return(<<>>, table[1], cache)

\* keys() that iterates self._cache instead of the table set
keys_of_cache(vosi_tables) ==
    SelectSeq([i \in 1..Len(vosi_tables) |-> vosi_tables[i].name],
              LAMBDA name : name \in DOMAIN _cache)

\* VOSITables.keys(): the names the generator yields
keys(vosi_tables) ==
    LET ts == iter_tables(vosi_tables)
    IN  [i \in 1..Len(ts) |-> ts[i].name]

\* VOSITables.__len__()
len(vosi_tables) == ntables(vosi_tables)

\* a VOSITables object has been constructed
Constructed == _vosi_tables # None

\* a lookup of name issues the GET of the table, and reads its answer
Fetches(name) ==
    /\ name \notin DOMAIN _cache
    /\ \E i \in 1..Len(_vosi_tables[1]) :
         /\ _vosi_tables[1][i].name = name
         /\ _vosi_tables[1][i].columns = <<>>
         /\ _vosi_tables[1][i].foreignkeys = <<>>

\* VOSITables.__getitem__(name)
GetItem ==
    /\ Constructed
    /\ \E name \in TableNames :
         \E outcome \in InputsIf(Fetches(name), Outcomes, "OK"),
            doc \in InputsIf(Fetches(name), SingleTables(name), Table(name, <<>>, <<>>)) :
            LET r == _get_table(_vosi_tables[1], _endpoint_url, _cache, name, outcome, doc)
            IN  /\ _cache' = r.cell
                /\ last' = Called("__getitem__", name, r)
                /\ UNCHANGED <<_availability, capabilities, tables, _vosi_tables, _endpoint_url, gen, sent, pc, local>>

\* a whole iteration of VOSITables.keys()
Keys ==
    /\ Constructed
    /\ last' = Called("keys", "", Return(<<>>, keys(_vosi_tables[1]), _cache))
    /\ UNCHANGED <<_availability, capabilities, tables, _vosi_tables, _endpoint_url, _cache, gen, sent, pc, local>>

\* a whole iteration of VOSITables.__iter__()
Iter ==
    /\ Constructed
    /\ last' = Called("__iter__", "", Return(<<>>, keys(_vosi_tables[1]), _cache))
    /\ UNCHANGED <<_availability, capabilities, tables, _vosi_tables, _endpoint_url, _cache, gen, sent, pc, local>>

\* len(VOSITables)
LenTables ==
    /\ Constructed
    /\ last' = Called("__len__", "", Return(<<>>, len(_vosi_tables[1]), _cache))
    /\ UNCHANGED <<_availability, capabilities, tables, _vosi_tables, _endpoint_url, _cache, gen, sent, pc, local>>

\* a generator that has yielded its first pos elements
Generator(kind, pos) == [kind |-> kind, pos |-> pos]

\* next() of the generator of VOSITables.values() that has yielded pos
\* elements: the result of the lookup it yields, or StopIteration
values(vosi_tables, endpoint_url, cache, pos, outcome, doc) ==
    LET names == keys(vosi_tables)
    IN  IF pos < Len(names)
        THEN _get_table(vosi_tables, endpoint_url, cache, names[pos + 1], outcome, doc)
        ELSE Raise(<<>>, Exception("StopIteration", "", None), cache)

\* next() of the generator of VOSITables.items() that has yielded pos elements
items(vosi_tables, endpoint_url, cache, pos, outcome, doc) ==
    LET names == keys(vosi_tables)
    IN  IF pos < Len(names)
        THEN LET r == _get_table(vosi_tables, endpoint_url, cache, names[pos + 1],
                                 outcome, doc)
             IN  IF r.raised = None
                 THEN Return(r.reqs, <<names[pos + 1], r.value[1]>>, r.cell)
                 ELSE r
        ELSE Raise(<<>>, Exception("StopIteration", "", None), cache)

\* VOSITables.values(): the call makes the generator and runs none of its body
Values ==
    /\ Constructed
    /\ gen' = Some(Generator("values", 0))
    /\ last' = [op |-> "values", arg |-> "", reqs |-> <<>>, raised |-> None, value |-> None]
    /\ UNCHANGED <<_availability, capabilities, tables, _vosi_tables, _endpoint_url, _cache, sent, pc, local>>

\* VOSITables.items(): the call makes the generator and runs none of its body
Items ==
    /\ Constructed
    /\ gen' = Some(Generator("items", 0))
    /\ last' = [op |-> "items", arg |-> "", reqs |-> <<>>, raised |-> None, value |-> None]
    /\ UNCHANGED <<_availability, capabilities, tables, _vosi_tables, _endpoint_url, _cache, sent, pc, local>>

\* the name that the next element of the running generator looks up ("" at the end)
NextName ==
    LET names == keys(_vosi_tables[1])
    IN  IF gen[1].pos < Len(names) THEN names[gen[1].pos + 1] ELSE ""

\* next(generator): one element is consumed; a generator that raised is finished
NextOfGen ==
    /\ gen # None
    /\ \E outcome \in InputsIf(Fetches(NextName), Outcomes, "OK"),
          doc \in InputsIf(Fetches(NextName), SingleTables(NextName),
                           Table(NextName, <<>>, <<>>)) :
         LET name == NextName
             r == IF gen[1].kind = "values"
                  THEN values(_vosi_tables[1], _endpoint_url, _cache, gen[1].pos, outcome, doc)
                  ELSE items(_vosi_tables[1], _endpoint_url, _cache, gen[1].pos, outcome, doc)
         IN  /\ _cache' = r.cell
             /\ gen' = IF r.raised = None THEN Some(Generator(gen[1].kind, gen[1].pos + 1))
                       ELSE None
             /\ last' = Called(IF gen[1].kind = "values" THEN "next(values)"
                                                        ELSE "next(items)", name, r)
             /\ UNCHANGED <<_availability, capabilities, tables, _vosi_tables, _endpoint_url, sent, pc, local>>

----------------------------------------------------------------------------
(* The service client, and the VOSITables its tables property returns *)

\* no thread runs in the sequential specifications
NoThreads == <<>>

Constructing == [op |-> "__init__", arg |-> "", reqs |-> <<>>, raised |-> None, value |-> None]

Init ==
    /\ _availability = None
    /\ capabilities = None
    /\ tables = None
    /\ _vosi_tables = None
    /\ _endpoint_url = None
    /\ _cache = EmptyCache
    /\ gen = None
    /\ sent = <<>>
    /\ pc = NoThreads
    /\ local = NoThreads
    /\ last = Constructing

Next ==
    \/ GetAvailability
    \/ GetCapabilities
    \/ GetTables
    \/ GetItem

Spec == Init /\ [][Next]_vars

----------------------------------------------------------------------------
(* A VOSITables constructed on any table set and endpoint URL *)

EndpointUrls == {U1, U2}

InitVOSITables ==
    /\ _availability = None
    /\ capabilities = None
    /\ tables = None
    /\ _vosi_tables \in { Some(ts) : ts \in TableSets(TableNames, MaxTables) }
    /\ _endpoint_url \in EndpointUrls
    /\ _cache = EmptyCache
    /\ gen = None
    /\ sent = <<>>
    /\ pc = NoThreads
    /\ local = NoThreads
    /\ last = Constructing

NextVOSITables ==
    \/ GetItem
    \/ Keys
    \/ Iter
    \/ LenTables
    \/ Values
    \/ Items
    \/ NextOfGen

SpecVOSITables == InitVOSITables /\ [][NextVOSITables]_vars

----------------------------------------------------------------------------
(* An AvailabilityMixin alone, on a transport that counts its GETs *)

\* the GETs that the transport counts before the client is left alone
MaxAvailabilityGets == 3

\* the outcomes of the requests rs, in order
OutcomesOf(rs) == [i \in 1..Len(rs) |-> rs[i].outcome]

\* an access to one of the three properties, r being what it did
AvailabilityAccess(op, r) ==
    /\ Len(sent) + Len(r.reqs) <= MaxAvailabilityGets
    /\ _availability' = r.cell
    /\ sent' = sent \o OutcomesOf(r.reqs)
    /\ last' = Called(op, "", r)
    /\ UNCHANGED <<capabilities, tables, _vosi_tables, _endpoint_url, _cache, gen, pc, local>>

\* client.availability
Availability ==
    \E outcome \in InputsIf(_availability = None, Outcomes, "OK"),
       doc \in InputsIf(_availability = None, AvailabilityDocs, [available |-> TRUE, upsince |-> "None"]) :
        AvailabilityAccess("availability",
                           AvailabilityMixin_availability(_availability, outcome, doc))

\* client.available
Available ==
    \E outcome \in InputsIf(_availability = None, Outcomes, "OK"),
       doc \in InputsIf(_availability = None, AvailabilityDocs, [available |-> TRUE, upsince |-> "None"]) :
        AvailabilityAccess("available", available(_availability, outcome, doc))

\* client.up_since
UpSince ==
    \E outcome \in InputsIf(_availability = None, Outcomes, "OK"),
       doc \in InputsIf(_availability = None, AvailabilityDocs, [available |-> TRUE, upsince |-> "None"]) :
        AvailabilityAccess("up_since", up_since(_availability, outcome, doc))

NextAvailability ==
    \/ Availability
    \/ Available
    \/ UpSince

SpecAvailability == Init /\ [][NextAvailability]_vars

----------------------------------------------------------------------------
(* Threads that access one client and its VOSITables without a lock *)

\* the threads that access the client
NThreads == 2
Threads == 1..NThreads

\* the frame of a call that a thread has entered: the property or method, its
\* argument, the GETs it has issued, the response it holds, its local
\* variable table, and the exception or the value with which it has left
Frame(op, arg) ==
    [op |-> op, arg |-> arg, gets |-> 0, response |-> None, table |-> None,
     raised |-> None, result |-> None]

\* a step of a thread in AvailabilityMixin.availability that skips the
\* assignment to self._availability
availability_step_unassigned(at, frame, cell, outcome, doc) ==
    CASE at = "test" ->
           [pc |-> IF cell = None THEN "get" ELSE "return", local |-> frame, cell |-> cell]
      [] at = "get" ->
           LET avail_url == Format(baseurl, "availability")
               sending == [frame EXCEPT !.gets = @ + 1]
           IN  IF outcome = "OK"
               THEN [pc |-> "return", cell |-> cell,
                     local |-> [sending EXCEPT !.response = Some(doc)]]
               ELSE [pc |-> "done", cell |-> cell,
                     local |-> [sending EXCEPT !.raised =
                                   Some(IF outcome = "ConnectionError"
                                        THEN Exception("ConnectionError", "", avail_url)
                                        ELSE from_except("HTTPError", avail_url))]]
      [] at = "store" ->
           [pc |-> "return", local |-> frame, cell |-> frame.response]
      [] at = "return" ->
           [pc |-> "done", local |-> [frame EXCEPT !.result = cell], cell |-> cell]

\* a step of a thread in AvailabilityMixin.availability, from the statement
\* it is at: the test of self._availability, the GET with its status check,
\* the assignment of the parsed response, the return of self._availability
availability_step(at, frame, cell, outcome, doc) ==
    CASE at = "test" ->
           [pc |-> IF cell = None THEN "get" ELSE "return", local |-> frame, cell |-> cell]
      [] at = "get" ->
           LET avail_url == Format(baseurl, "availability")
               sending == [frame EXCEPT !.gets = @ + 1]
           IN  IF outcome = "OK"
               THEN [pc |-> "store", cell |-> cell,
                     local |-> [sending EXCEPT !.response = Some(doc)]]
               ELSE [pc |-> "done", cell |-> cell,
                     local |-> [sending EXCEPT !.raised =
                                   Some(IF outcome = "ConnectionError"
                                        THEN Exception("ConnectionError", "", avail_url)
                                        ELSE from_except("HTTPError", avail_url))]]
      [] at = "store" ->
           [pc |-> "return", local |-> frame, cell |-> frame.response]
      [] at = "return" ->
           [pc |-> "done", local |-> [frame EXCEPT !.result = cell], cell |-> cell]

\* a step of a thread in VOSITables._get_table, from the statement it is at:
\* the test of self._cache, the return of the cached table, the search of the
\* table set, the GET with its status check, the assignment to the cache, the
\* return of the local table
_get_table_step(at, frame, vosi_tables, endpoint_url, cache, outcome, doc) ==
    LET name == frame.arg
    IN  CASE at = "test" ->
               [pc |-> IF name \in DOMAIN cache THEN "hit" ELSE "find",
                local |-> frame, cell |-> cache]
          [] at = "hit" ->
               [pc |-> "done", local |-> [frame EXCEPT !.result = Some(cache[name])],
                cell |-> cache]
          [] at = "find" ->
               LET table == get_table_by_name(vosi_tables, name)
               IN  IF table = None
                   THEN [pc |-> "done", cell |-> cache,
                         local |-> [frame EXCEPT !.raised =
                                       Some(Exception("KeyError", name, None))]]
                   ELSE [pc |-> IF table[1].columns = <<>> /\ table[1].foreignkeys = <<>>
                                THEN "get" ELSE "return",
                         local |-> [frame EXCEPT !.table = table], cell |-> cache]
          [] at = "get" ->
               LET tables_url == Format(endpoint_url, name)
                   sending == [frame EXCEPT !.gets = @ + 1]
               IN  IF outcome = "OK"
                   THEN [pc |-> "store", cell |-> cache,
                         local |-> [sending EXCEPT !.response = Some(doc), !.table = Some(doc)]]
                   ELSE [pc |-> "done", cell |-> cache,
                         local |-> [sending EXCEPT !.raised =
                                       Some(IF outcome = "ConnectionError"
                                            THEN Exception("ConnectionError", "", tables_url)
                                            ELSE from_except("HTTPError", tables_url))]]
          [] at = "store" ->
               [pc |-> "return", local |-> frame, cell |-> (name :> frame.table[1]) @@ cache]
          [] at = "return" ->
               [pc |-> "done", local |-> [frame EXCEPT !.result = frame.table], cell |-> cache]

\* a thread enters client.availability or vositables[name]
Enter(t) ==
    /\ pc[t] = "idle"
    /\ \E f \in {Frame("availability", "")} \cup {Frame("__getitem__", name) : name \in TableNames} :
          local' = [local EXCEPT ![t] = f]
    /\ pc' = [pc EXCEPT ![t] = "test"]
    /\ UNCHANGED <<_availability, capabilities, tables, _vosi_tables, _endpoint_url, _cache, gen, sent, last>>

\* a thread runs its next statement of availability
AvailabilityStep(t) ==
    /\ pc[t] \notin {"idle", "done"}
    /\ local[t].op = "availability"
    /\ \E outcome \in InputsIf(pc[t] = "get", Outcomes, "OK"),
          doc \in InputsIf(pc[t] = "get", AvailabilityDocs, [available |-> TRUE, upsince |-> "None"]) :
         LET r == availability_step(pc[t], local[t], _availability, outcome, doc)
         IN  /\ pc' = [pc EXCEPT ![t] = r.pc]
             /\ local' = [local EXCEPT ![t] = r.local]
             /\ _availability' = r.cell
    /\ UNCHANGED <<capabilities, tables, _vosi_tables, _endpoint_url, _cache, gen, sent, last>>

\* a thread runs its next statement of _get_table
GetTableStep(t) ==
    /\ pc[t] \notin {"idle", "done"}
    /\ local[t].op = "__getitem__"
    /\ \E outcome \in InputsIf(pc[t] = "get", Outcomes, "OK"),
          doc \in InputsIf(pc[t] = "get", SingleTables(local[t].arg),
                           Table(local[t].arg, <<>>, <<>>)) :
         LET r == _get_table_step(pc[t], local[t], _vosi_tables[1], _endpoint_url, _cache,
                                  outcome, doc)
         IN  /\ pc' = [pc EXCEPT ![t] = r.pc]
             /\ local' = [local EXCEPT ![t] = r.local]
             /\ _cache' = r.cell
    /\ UNCHANGED <<_availability, capabilities, tables, _vosi_tables, _endpoint_url, gen, sent, last>>

\* a client without a value of availability and a VOSITables with an empty
\* cache, before any thread has entered
InitThreads ==
    /\ _availability = None
    /\ capabilities = None
    /\ tables = None
    /\ \E ts \in ServedTableSets : _vosi_tables = Some(ts)
    /\ _endpoint_url = U2
    /\ _cache = EmptyCache
    /\ gen = None
    /\ sent = <<>>
    /\ pc = [t \in Threads |-> "idle"]
    /\ local = [t \in Threads |-> Frame("", "")]
    /\ last = Constructing

NextThreads ==
    \E t \in Threads :
        \/ Enter(t)
        \/ AvailabilityStep(t)
        \/ GetTableStep(t)

SpecThreads == InitThreads /\ [][NextThreads]_vars

----------------------------------------------------------------------------
(* What the claims speak of, stated apart from the operators above *)

\* the candidate URLs of the capabilities endpoint, in order
CapaUrls ==
    << <<"http://example.org", "svc", "tap", "capabilities">>,
       <<"http://example.org", "svc", "capabilities">> >>

\* the convention candidates of the tables endpoint, in order
ConventionUrls ==
    << <<"http://example.org", "svc", "tap", "tables">>,
       <<"http://example.org", "svc", "tables">> >>

Range(seq) == { seq[i] : i \in 1..Len(seq) }

\* the requests of an access that went to the capabilities candidates, and the others
CapaReqs(reqs) == SelectSeq(reqs, LAMBDA r : r.url \in Range(CapaUrls))
OtherReqs(reqs) == SelectSeq(reqs, LAMBDA r : r.url \notin Range(CapaUrls))

Urls(reqs) == [i \in 1..Len(reqs) |-> reqs[i].url]
Failed(r) == r.outcome # "OK"

\* reqs is what trying urls in order issues: a prefix of urls in which every
\* request but the last has failed, and which stops short of urls only after
\* a request that succeeded
FirstWins(reqs, urls) ==
    /\ Len(reqs) <= Len(urls)
    /\ \A i \in 1..Len(reqs) : reqs[i].url = urls[i]
    /\ \A i \in 1..(Len(reqs) - 1) : Failed(reqs[i])
    /\ Len(reqs) < Len(urls) => Len(reqs) >= 1 /\ ~Failed(reqs[Len(reqs)])

NoWorking(kind) ==
    [type |-> "DALServiceError",
     reason |-> "No working " \o kind \o " endpoint provided",
     url |-> None]

\* the capability list has a capability of the VOSI tables standard id
IsTablesCapability(c) ==
    /\ Len(c.standardid) >= 3
    /\ c.standardid[1] = "ivo://ivoa.net/std/"
    /\ c.standardid[2] = "VOSI#"
    /\ c.standardid[3] = "tables"

HasTablesCapability(capas) == \E i \in 1..Len(capas) : IsTablesCapability(capas[i])

\* the access URLs of the first capability of the VOSI tables standard id
DeclaredUrls(capas) ==
    LET first == CHOOSE i \in 1..Len(capas) :
                    /\ IsTablesCapability(capas[i])
                    /\ \A j \in 1..(i - 1) : ~IsTablesCapability(capas[j])
        ifs == capas[first].interfaces
        pairs == UNION { { <<i, j>> : j \in 1..Len(ifs[i].accessurls) } : i \in 1..Len(ifs) }
        Before(p, q) == p[1] < q[1] \/ (p[1] = q[1] /\ p[2] < q[2])
        Rank(p) == Cardinality({ q \in pairs : Before(q, p) }) + 1
    IN  [k \in 1..Cardinality(pairs) |->
            LET p == CHOOSE q \in pairs : Rank(q) = k
            IN  ifs[p[1]].accessurls[p[2]].value]

\* the last access was served from the cell: a value and no request
ServedFromCell == last.value # None /\ last.reqs = <<>>

----------------------------------------------------------------------------
(* The three lazily computed properties of the client *)

\* C1: once availability (capabilities, tables) holds a value, an access to
\* that property issues no request, returns the value held and leaves it held.
C1_ComputedOnce ==
    [][ /\ (_availability # None /\ last'.op = "availability") =>
              /\ last'.reqs = <<>>
              /\ last'.value = _availability
              /\ _availability' = _availability
        /\ (capabilities # None /\ last'.op = "capabilities") =>
              /\ last'.reqs = <<>>
              /\ last'.value = capabilities
              /\ capabilities' = capabilities
        /\ (tables # None /\ last'.op = "tables") =>
              /\ last'.reqs = <<>>
              /\ last'.value = tables
              /\ tables' = tables
              /\ <<_vosi_tables, _endpoint_url, _cache>>' = <<_vosi_tables, _endpoint_url, _cache>>
      ]_vars

\* every property holds a value and the last access, to tables, was served from its cell
C1_Witness ==
    /\ _availability # None
    /\ capabilities # None
    /\ tables # None
    /\ last.op = "tables"
    /\ last.reqs = <<>>
    /\ last.value = tables

\* C2: a computation of capabilities, by an access to capabilities or to
\* tables, requests a non-empty prefix of CapaUrls, the second candidate only
\* after the first has failed and none after a success, and the value it
\* leaves is tagged with the URL whose request succeeded.
C2_CapabilitiesCandidates ==
    [][ (capabilities = None /\ tables = None /\ last'.op \in {"capabilities", "tables"}) =>
            LET reqs == CapaReqs(last'.reqs)
                n == Len(reqs)
            IN  /\ n >= 1
                /\ FirstWins(reqs, CapaUrls)
                /\ SubSeq(last'.reqs, 1, n) = reqs
                /\ IF Failed(reqs[n])
                   THEN /\ n = Len(CapaUrls)
                        /\ capabilities' = None
                        /\ last'.raised # None
                   ELSE /\ capabilities' # None
                        /\ capabilities'[1].url = reqs[n].url
                        /\ last'.op = "capabilities" => last'.value = capabilities'
      ]_vars

\* the first candidate failed to connect and the sibling path answered
C2_Witness ==
    /\ last.op = "capabilities"
    /\ Len(last.reqs) = 2
    /\ last.reqs[1] = Request(CapaUrls[1], "ConnectionError")
    /\ last.reqs[2] = Request(CapaUrls[2], "OK")
    /\ last.value # None
    /\ last.value[1].url = CapaUrls[2]
    /\ capabilities = last.value

\* C3: an access to capabilities or to tables never raises a transport
\* exception; when every requested capabilities candidate has failed it raises
\* "No working capabilities endpoint provided", and when every requested tables
\* candidate has failed, "No working tables endpoint provided".
C3_Exhaustion ==
    last.op \in {"capabilities", "tables"} =>
        LET capa == CapaReqs(last.reqs)
            other == OtherReqs(last.reqs)
        IN  /\ last.raised # None => last.raised[1].type = "DALServiceError"
            /\ (capa # <<>> /\ \A i \in 1..Len(capa) : Failed(capa[i])) =>
                  /\ Urls(capa) = CapaUrls
                  /\ last.raised = Some(NoWorking("capabilities"))
            /\ (other # <<>> /\ \A i \in 1..Len(other) : Failed(other[i])) =>
                  /\ last.op = "tables"
                  /\ last.raised = Some(NoWorking("tables"))

\* both convention candidates of tables failed, one by status and one by connection
C3_Witness ==
    /\ last.op = "tables"
    /\ OtherReqs(last.reqs) = << Request(ConventionUrls[1], "ConnectionError"),
                                 Request(ConventionUrls[2], "HTTPError") >>
    /\ last.raised = Some(NoWorking("tables"))

\* the access to tables that computed: it was not served from the cell, and
\* the capabilities it read are held
TablesComputed == last.op = "tables" /\ ~ServedFromCell /\ capabilities # None

\* C4: when the capability list has a VOSI tables capability, the requests of
\* tables are the access URLs of the first one in declared order, up to the
\* first that succeeds and no further, also when all of them fail: a
\* convention URL is requested only where it is itself a declared access URL.
C4_DeclaredEndpoint ==
    (TablesComputed /\ HasTablesCapability(capabilities[1].capabilities)) =>
        LET reqs == OtherReqs(last.reqs)
            declared == DeclaredUrls(capabilities[1].capabilities)
        IN  /\ FirstWins(reqs, declared)
            /\ \A i \in 1..Len(reqs) :
                  reqs[i].url \in Range(ConventionUrls) =>
                      /\ reqs[i].url = declared[i]
                      /\ \A j \in 1..(i - 1) : reqs[j].url # reqs[i].url
            /\ last.raised = None <=> (reqs # <<>> /\ ~Failed(reqs[Len(reqs)]))

\* two VOSI tables capabilities are declared; the first URL of the first one
\* failed and its second URL answered
C4_Witness ==
    /\ TablesComputed
    /\ Len(capabilities[1].capabilities) = 2
    /\ \A i \in 1..2 : IsTablesCapability(capabilities[1].capabilities[i])
    /\ DeclaredUrls(capabilities[1].capabilities) = <<U2, U1>>
    /\ OtherReqs(last.reqs) = << Request(U2, "HTTPError"), Request(U1, "OK") >>
    /\ last.value # None
    /\ last.value[1].endpoint_url = U1

\* C5: when the capabilities fetch succeeded and no capability is a VOSI
\* tables capability, tables requests {baseurl}/tables and then, only if that
\* failed, the sibling path; it fails only when both have failed.
C5_ConventionFallback ==
    (TablesComputed /\ ~HasTablesCapability(capabilities[1].capabilities)) =>
        LET reqs == OtherReqs(last.reqs)
        IN  /\ reqs # <<>>
            /\ FirstWins(reqs, ConventionUrls)
            /\ last.raised = None <=> ~Failed(reqs[Len(reqs)])
            /\ last.raised = None =>
                  /\ tables = last.value
                  /\ last.value[1].endpoint_url = reqs[Len(reqs)].url

\* the capability list is empty, {baseurl}/tables failed and the sibling path answered
C5_Witness ==
    /\ TablesComputed
    /\ capabilities[1].capabilities = <<>>
    /\ OtherReqs(last.reqs) = << Request(ConventionUrls[1], "HTTPError"),
                                 Request(ConventionUrls[2], "OK") >>
    /\ last.value # None
    /\ last.value[1].endpoint_url = ConventionUrls[2]

----------------------------------------------------------------------------
(* The VOSITables mapping *)

\* the table set of the VOSITables, its names in declared order, and the
\* summary it declares for a name
TableSet == _vosi_tables[1]
DeclaredNames == [i \in 1..Len(TableSet) |-> TableSet[i].name]
Declared(name) == \E i \in 1..Len(TableSet) : TableSet[i].name = name
Summary(name) == TableSet[CHOOSE i \in 1..Len(TableSet) : TableSet[i].name = name]
Shallow(name) ==
    Declared(name) /\ Len(Summary(name).columns) = 0 /\ Len(Summary(name).foreignkeys) = 0
Complete(name) ==
    Declared(name) /\ (Len(Summary(name).columns) > 0 \/ Len(Summary(name).foreignkeys) > 0)

\* the accesses that look a name up, and the Table such an access returned
LookupOps == {"__getitem__", "next(values)", "next(items)"}
IsLookup(l) == l.op \in LookupOps /\ l.arg # ""
Looked(l) == IF l.op = "next(items)" THEN l.value[1][2] ELSE l.value[1]

\* C6: a lookup of a declared name without columns and foreign keys that is not
\* cached issues exactly one GET, to {endpoint_url}/{name}, and when that
\* succeeds the parsed table is stored under the name; a lookup of a cached
\* name, by __getitem__, values() or items(), issues no request, returns the
\* cached Table and leaves the cache as it is.
C6_HydratedOnce ==
    [][ IsLookup(last') =>
          LET name == last'.arg
          IN  /\ (Shallow(name) /\ name \notin DOMAIN _cache) =>
                    /\ Len(last'.reqs) = 1
                    /\ last'.reqs[1].url = _endpoint_url \o <<name>>
                    /\ ~Failed(last'.reqs[1]) =>
                          /\ last'.raised = None
                          /\ DOMAIN _cache' = DOMAIN _cache \cup {name}
                          /\ _cache'[name] = Looked(last')
                          /\ \A n \in DOMAIN _cache : _cache'[n] = _cache[n]
              /\ name \in DOMAIN _cache =>
                    /\ last'.reqs = <<>>
                    /\ last'.raised = None
                    /\ Looked(last') = _cache[name]
                    /\ _cache' = _cache
      ]_vars

\* a later lookup of a hydrated name, through items(), was served from the cache
C6_Witness ==
    /\ last.op = "next(items)"
    /\ Shallow(last.arg)
    /\ last.arg \in DOMAIN _cache
    /\ last.reqs = <<>>
    /\ last.value = Some(<<last.arg, _cache[last.arg]>>)
    /\ Len(_cache[last.arg].columns) > 0

\* C7: a lookup of a declared name whose summary has columns or foreign keys
\* issues no request and returns that summary.
C7_CompleteSummary ==
    (IsLookup(last) /\ Complete(last.arg)) =>
        /\ last.reqs = <<>>
        /\ last.raised = None
        /\ Looked(last) = Summary(last.arg)

\* a summary with foreign keys and no columns was looked up, after another
\* table had been hydrated
C7_Witness ==
    /\ last.op = "__getitem__"
    /\ Complete(last.arg)
    /\ Summary(last.arg).columns = <<>>
    /\ last.value = Some(Summary(last.arg))
    /\ DOMAIN _cache # {}

\* C8: a transport failure of the one request of availability, or of the
\* hydration of a table, reaches the caller as a DALServiceError that carries
\* the requested URL.
C8_TransportFailureWrapped ==
    ((last.op = "availability" \/ IsLookup(last)) /\ last.reqs # <<>> /\ Failed(last.reqs[1])) =>
        /\ last.raised # None
        /\ last.raised[1].type = "DALServiceError"
        /\ last.raised[1].url = last.reqs[1].url

\* C9: __getitem__ of a name that the table set does not declare raises
\* KeyError, issues no request and leaves the cache as it is.
C9_UndeclaredName ==
    [][ (last'.op = "__getitem__" /\ ~Declared(last'.arg)) =>
            /\ last'.raised # None
            /\ last'.raised[1].type = "KeyError"
            /\ last'.reqs = <<>>
            /\ _cache' = _cache
      ]_vars

\* an undeclared name was looked up in a VOSITables that has hydrated a table
C9_Witness ==
    /\ last.op = "__getitem__"
    /\ ~Declared(last.arg)
    /\ last.raised # None
    /\ last.raised[1].type = "KeyError"
    /\ DOMAIN _cache # {}

\* C10: keys() and __iter__() yield the declared names, each once and in
\* declared order, and __len__() the declared count, in whatever state they
\* are called; they issue no request and leave the cache as it is.
C10_KeysAndLen ==
    [][ /\ last'.op \in {"keys", "__iter__"} =>
              /\ last'.value = Some(DeclaredNames)
              /\ \A i, j \in 1..Len(last'.value[1]) :
                    last'.value[1][i] = last'.value[1][j] => i = j
              /\ last'.reqs = <<>>
              /\ _cache' = _cache
        /\ last'.op = "__len__" =>
              /\ last'.value = Some(Len(TableSet))
              /\ last'.reqs = <<>>
              /\ _cache' = _cache
      ]_vars

\* keys() was called on a table set of several tables of which some, not all,
\* are cached
C10_Witness ==
    /\ last.op = "keys"
    /\ Len(TableSet) >= 2
    /\ last.value = Some(DeclaredNames)
    /\ DOMAIN _cache # {}
    /\ DOMAIN _cache # Range(DeclaredNames)

----------------------------------------------------------------------------
(* The requests of availability over the life of the client *)

AvailabilityOps == {"availability", "available", "up_since"}

\* C11, as claimed: once availability, available or up_since has been
\* accessed, the transport has counted exactly one GET of
\* {baseurl}/availability, whatever the outcomes.
C11_ExactlyOneRequest ==
    last.op \in AvailabilityOps => Len(sent) = 1

\* C11, amended: every access issues one GET of {baseurl}/availability until
\* one has succeeded, and none is issued after that: the GETs counted are
\* failures followed by at most one success, the document is held exactly when
\* the last of them succeeded, and an access has issued one GET unless the
\* document was held.
C11_OneSuccessfulRequest ==
    /\ \A i \in 1..(Len(sent) - 1) : sent[i] # "OK"
    /\ _availability # None <=> (sent # <<>> /\ sent[Len(sent)] = "OK")
    /\ last.op \in AvailabilityOps =>
          /\ sent # <<>>
          /\ Len(last.reqs) <= 1
          /\ \A i \in 1..Len(last.reqs) :
                /\ last.reqs[i].url = <<"http://example.org", "svc", "tap", "availability">>
                /\ last.reqs[i].outcome = sent[Len(sent)]
          /\ last.raised # None => last.reqs # <<>> /\ _availability = None

\* two GETs failed, the third succeeded, and up_since was then served without a GET
C11_Witness ==
    /\ sent = <<"HTTPError", "ConnectionError", "OK">>
    /\ last.op = "up_since"
    /\ last.reqs = <<>>
    /\ last.value = Some(_availability[1].upsince)

----------------------------------------------------------------------------
(* What the cache of a VOSITables holds *)

\* C12, as claimed: after any successful lookup of a name, the name is a key
\* of the cache, a summary with columns or foreign keys included.
C12_EveryLookupCached ==
    (IsLookup(last) /\ last.raised = None) => last.arg \in DOMAIN _cache

\* C12, amended: a summary with columns or foreign keys is returned without
\* being stored: the cache holds only names whose summary has neither, and
\* after a lookup of a name with a complete summary the name is not a key of
\* the cache, so that a later lookup takes the same path and not the cache hit.
C12_OnlyHydratedCached ==
    /\ \A name \in DOMAIN _cache : Shallow(name)
    /\ (IsLookup(last) /\ Complete(last.arg)) =>
          /\ last.raised = None
          /\ Looked(last) = Summary(last.arg)
          /\ last.arg \notin DOMAIN _cache

\* values() has yielded a summary with columns, which is not in the cache,
\* while a hydrated table is
C12_Witness ==
    /\ last.op = "next(values)"
    /\ Complete(last.arg)
    /\ Summary(last.arg).columns # <<>>
    /\ last.value = Some(Summary(last.arg))
    /\ last.arg \notin DOMAIN _cache
    /\ DOMAIN _cache # {}

\* the candidates of the tables endpoint that capas give, in order
TablesCandidates(capas) ==
    IF HasTablesCapability(capas) THEN DeclaredUrls(capas) ELSE ConventionUrls

\* C13: a failed access to availability, capabilities or tables leaves the
\* property without a value, and a failed GET of a table leaves the name out of
\* the cache; an access to a property without a value issues its requests from
\* the first candidate on, and a lookup of a declared name without columns and
\* foreign keys that is not cached issues the GET of {endpoint_url}/{name}.
C13_FailureNotCached ==
    [][ /\ (last'.op = "availability" /\ last'.raised # None) => _availability' = None
        /\ (last'.op = "capabilities" /\ last'.raised # None) => capabilities' = None
        /\ (last'.op = "tables" /\ last'.raised # None) => tables' = None
        /\ (last'.op = "__getitem__" /\ last'.raised # None) =>
              /\ _cache' = _cache
              /\ last'.reqs # <<>> => last'.arg \notin DOMAIN _cache'
        /\ (last'.op = "availability" /\ _availability = None) =>
              Urls(last'.reqs) = << <<"http://example.org", "svc", "tap", "availability">> >>
        /\ (last'.op = "capabilities" /\ capabilities = None) =>
              /\ last'.reqs # <<>>
              /\ last'.reqs[1].url = CapaUrls[1]
        /\ (last'.op = "tables" /\ tables = None) =>
              IF capabilities = None
              THEN /\ last'.reqs # <<>>
                   /\ last'.reqs[1].url = CapaUrls[1]
              ELSE LET urls == TablesCandidates(capabilities[1].capabilities)
                   IN  /\ Len(last'.reqs) >= (IF urls = <<>> THEN 0 ELSE 1)
                       /\ \A i \in 1..Len(last'.reqs) : last'.reqs[i].url = urls[i]
        /\ (last'.op = "__getitem__" /\ Shallow(last'.arg) /\ last'.arg \notin DOMAIN _cache) =>
              Urls(last'.reqs) = <<_endpoint_url \o <<last'.arg>> >>
      ]_vars

\* the GET of a table has failed on a client whose three properties hold a
\* value: the name is not in the cache
C13_Witness ==
    /\ _availability # None
    /\ capabilities # None
    /\ tables # None
    /\ last.op = "__getitem__"
    /\ last.reqs = <<Request(_endpoint_url \o <<last.arg>>, "HTTPError")>>
    /\ last.raised # None
    /\ last.arg \notin DOMAIN _cache

\* C14: the cache only grows: a name that is cached stays cached with the same
\* Table, and a lookup that fails, of a declared name or of an undeclared one,
\* leaves the whole cache as it is.
C14_CacheMonotonic ==
    [][ /\ DOMAIN _cache \subseteq DOMAIN _cache'
        /\ \A name \in DOMAIN _cache : _cache'[name] = _cache[name]
        /\ (IsLookup(last') /\ last'.raised # None) => _cache' = _cache
      ]_vars

\* with one table cached, the GET of another has been refused
C14_Witness ==
    /\ IsLookup(last)
    /\ last.reqs # <<>>
    /\ last.reqs[1].outcome = "ConnectionError"
    /\ last.raised # None
    /\ Cardinality(DOMAIN _cache) = 1
    /\ last.arg \notin DOMAIN _cache

----------------------------------------------------------------------------
(* The tables endpoint and the capabilities it is found from *)

\* C15: the VOSITables that a computation of tables returns holds the URL of
\* the candidate whose GET succeeded, the only one of its requests that did;
\* the object held by tables keeps that URL, and a GET of a table goes to
\* that URL followed by the name.
C15_EndpointUrl ==
    /\ (TablesComputed /\ last.raised = None) =>
          LET reqs == OtherReqs(last.reqs)
          IN  /\ reqs # <<>>
              /\ \A i \in 1..Len(reqs) : Failed(reqs[i]) <=> i < Len(reqs)
              /\ last.value[1].endpoint_url = reqs[Len(reqs)].url
              /\ tables = last.value
    /\ tables # None => _endpoint_url = tables[1].endpoint_url
    /\ (last.op = "__getitem__" /\ last.reqs # <<>>) =>
          Urls(last.reqs) = << tables[1].endpoint_url \o <<last.arg>> >>

\* the second declared URL answered for tables, and the table was then
\* fetched from under it
C15_Witness ==
    /\ tables # None
    /\ HasTablesCapability(capabilities[1].capabilities)
    /\ DeclaredUrls(capabilities[1].capabilities) = <<U1, U2>>
    /\ tables[1].endpoint_url = U2
    /\ last.op = "__getitem__"
    /\ last.reqs = << Request(<<"http://mirror.example.org", "tables", "obscore">>, "OK") >>
    /\ last.value # None

\* C17: a computation of tables issues the requests of capabilities before
\* any request of tables, and none when capabilities holds a value; when every
\* capabilities candidate has failed it raises "No working capabilities
\* endpoint provided", issues no request of tables and leaves tables, and
\* capabilities, without a value.
C17_CapabilitiesFirst ==
    [][ (last'.op = "tables" /\ tables = None) =>
            LET capa == CapaReqs(last'.reqs)
                n == Len(capa)
            IN  /\ SubSeq(last'.reqs, 1, n) = capa
                /\ capabilities # None =>
                      /\ n = 0
                      /\ capabilities' = capabilities
                /\ capabilities = None =>
                      /\ n >= 1
                      /\ (\A i \in 1..n : Failed(capa[i])) =>
                            /\ last'.raised = Some(NoWorking("capabilities"))
                            /\ last'.reqs = capa
                            /\ Urls(capa) = CapaUrls
                            /\ tables' = None
                            /\ capabilities' = None
                      /\ ~Failed(capa[n]) => capabilities' # None
      ]_vars

\* tables was accessed first and both capabilities candidates failed
C17_Witness ==
    /\ last.op = "tables"
    /\ Urls(last.reqs) = CapaUrls
    /\ last.raised = Some(NoWorking("capabilities"))
    /\ tables = None
    /\ capabilities = None

\* C18: when the first VOSI tables capability declares no access URL, tables
\* issues no request for the tables endpoint, neither to the convention URLs,
\* and raises "No working tables endpoint provided".
C18_NoAccessUrl ==
    (/\ TablesComputed
     /\ HasTablesCapability(capabilities[1].capabilities)
     /\ DeclaredUrls(capabilities[1].capabilities) = <<>>) =>
        /\ OtherReqs(last.reqs) = <<>>
        /\ last.raised = Some(NoWorking("tables"))
        /\ tables = None

\* the VOSI tables capability has one interface, without an access URL, and
\* the capabilities were fetched by this access to tables
C18_Witness ==
    /\ TablesComputed
    /\ Len(capabilities[1].capabilities) >= 1
    /\ IsTablesCapability(capabilities[1].capabilities[1])
    /\ Len(capabilities[1].capabilities[1].interfaces) = 1
    /\ DeclaredUrls(capabilities[1].capabilities) = <<>>
    /\ last.reqs = <<Request(CapaUrls[1], "OK")>>
    /\ last.raised = Some(NoWorking("tables"))

----------------------------------------------------------------------------
(* Iteration over values() and items() *)

\* C16: next() of the generator of values() or items() that has yielded k - 1
\* elements looks up the k-th declared name and no other: it issues one GET,
\* to {endpoint_url}/{name}, exactly when that name has neither columns nor
\* foreign keys and is not cached; it yields the Table that the lookup
\* returns, paired with the name by items(); and when the GET fails, the
\* iteration ends with a DALServiceError that carries the URL, and the cache
\* keeps what it held.
C16_LazyIteration ==
    [][ (gen # None /\ last'.op \in {"next(values)", "next(items)"}) =>
            LET k == gen[1].pos + 1
            IN  IF k > Len(DeclaredNames)
                THEN /\ last'.raised # None
                     /\ last'.raised[1].type = "StopIteration"
                     /\ last'.reqs = <<>>
                     /\ _cache' = _cache
                ELSE LET name == DeclaredNames[k]
                         fetched == Shallow(name) /\ name \notin DOMAIN _cache
                     IN  /\ last'.arg = name
                         /\ last'.reqs = IF fetched
                                         THEN <<Request(_endpoint_url \o <<name>>,
                                                        last'.reqs[1].outcome)>>
                                         ELSE <<>>
                         /\ \A n \in DOMAIN _cache : n \in DOMAIN _cache' /\ _cache'[n] = _cache[n]
                         /\ DOMAIN _cache' \subseteq DOMAIN _cache \cup {name}
                         /\ IF fetched /\ Failed(last'.reqs[1])
                            THEN /\ last'.raised # None
                                 /\ last'.raised[1].type = "DALServiceError"
                                 /\ last'.raised[1].url = _endpoint_url \o <<name>>
                                 /\ gen' = None
                                 /\ _cache' = _cache
                            ELSE LET table == IF Shallow(name) THEN _cache'[name]
                                                               ELSE Summary(name)
                                 IN  /\ last'.raised = None
                                     /\ gen' = Some(Generator(gen[1].kind, k))
                                     /\ last'.value = IF gen[1].kind = "items"
                                                      THEN Some(<<name, table>>)
                                                      ELSE Some(table)
      ]_vars

----------------------------------------------------------------------------
(* Concurrent first accesses *)

\* the threads that have entered op
ThreadsIn(op) == { t \in Threads : pc[t] # "idle" /\ local[t].op = op }

\* the thread has left its call by a return
Returned(t) == pc[t] = "done" /\ local[t].raised = None

\* no thread is inside a call
Quiescent == \A t \in Threads : pc[t] \in {"idle", "done"}

\* C19: threads that access availability, or look a table up, without a lock
\* may each issue the GET, at most once per access; an access that returns,
\* returns a parsed document that one of the accesses has fetched (or, for a
\* table, the complete summary), never the unset cell; what the cell and the
\* cache hold has been fetched by one of the accesses; and once no thread is
\* inside a call, every GET that succeeded has left the cell, or the name in
\* the cache, with a value.
C19_DuplicateFetchNoCorruption ==
    /\ \A t \in Threads : pc[t] # "idle" => local[t].gets <= 1
    /\ \A t \in ThreadsIn("availability") :
          Returned(t) =>
              /\ local[t].result # None
              /\ local[t].result[1] \in AvailabilityDocs
              /\ \E u \in ThreadsIn("availability") : local[u].response = local[t].result
    /\ \A t \in ThreadsIn("__getitem__") :
          Returned(t) =>
              /\ local[t].result # None
              /\ \/ Complete(local[t].arg) /\ local[t].result[1] = Summary(local[t].arg)
                 \/ \E u \in ThreadsIn("__getitem__") :
                       /\ local[u].arg = local[t].arg
                       /\ local[u].response = local[t].result
    /\ _availability # None =>
          \E u \in ThreadsIn("availability") : local[u].response = _availability
    /\ \A name \in DOMAIN _cache :
          \E u \in ThreadsIn("__getitem__") :
              /\ local[u].arg = name
              /\ local[u].response = Some(_cache[name])
    /\ Quiescent =>
          /\ (\E u \in ThreadsIn("availability") : local[u].response # None) =>
                _availability # None
          /\ \A u \in ThreadsIn("__getitem__") :
                local[u].response # None => local[u].arg \in DOMAIN _cache

\* two threads have both fetched availability, with different answers; the
\* cell holds the answer of the second, which is also what the first returned
C19_Witness ==
    /\ {1, 2} \subseteq ThreadsIn("availability")
    /\ Returned(1) /\ Returned(2)
    /\ local[1].gets = 1 /\ local[2].gets = 1
    /\ local[1].response # local[2].response
    /\ _availability = local[2].response
    /\ local[1].result = local[2].response
    /\ local[2].result = local[2].response

====
